---- MODULE Spec2Model ----
(***************************************************************************)
(* State-machine model of the MCP client of src/mcp_client.py: the         *)
(* connection lifecycle (connect_to_server, cleanup), the tool-calling     *)
(* loop of process_query, the resource aggregation, the interactive        *)
(* chat_loop and main.  The tool server (src/main.py) and the language     *)
(* model are the environment: their answers are chosen nondeterministically*)
(* from small sets.                                                        *)
(***************************************************************************)
EXTENDS Integers, Sequences, FiniteSets, TLC

VARIABLES
    session,             \* self.session: "None" or "obj"
    stdio_context,       \* self.stdio_context: "None" or "obj"
    available_tools,     \* self.available_tools
    available_resources, \* self.available_resources
    sessionState,        \* the ClientSession that self.session refers to
    transportState,      \* the stdio_client context of self.stdio_context
    initialized,         \* session.initialize() has completed on that session
    sessionExits,        \* number of __aexit__ calls made on that session
    transportExits,      \* number of __aexit__ calls made on that transport
    connLog,             \* steps of the latest connect_to_server, in order
    reads,               \* read_resource requests made on that session
    pc,                  \* position of the single thread of control
    driver,              \* "main": main() runs; "api": a caller calls methods
    turns,               \* inputs read by chat_loop, or calls by the caller
    user_input,          \* chat_loop: the line read last, stripped
    pending,             \* exception passing through main's finally, or "None"
    resIdx,              \* _get_resources_content: index of the next resource
    resources_text,      \* _get_resources_content: the accumulator
    fetchLog,            \* outcomes of this aggregation's read_resource calls
    response,            \* process_query: the latest model response (its parts)
    tool_result,         \* process_query: the latest call_tool result
    sends,               \* process_query: send_message calls made in this turn
    gemini_tools,        \* process_query: the translated tool declarations
    trace,               \* events of this process_query, in order
    outcome              \* how the last completed method call ended

vars == << session, stdio_context, available_tools, available_resources,
           sessionState, transportState, initialized, sessionExits,
           transportExits, connLog, reads, pc, driver, turns, user_input,
           pending, resIdx, resources_text, fetchLog, response, tool_result,
           sends, gemini_tools, trace, outcome >>

clientVars == << session, stdio_context, available_tools, available_resources >>
connVars == << sessionState, transportState, initialized, sessionExits,
               transportExits, connLog, reads >>
aggVars == << resIdx, resources_text, fetchLog >>
queryVars == << response, tool_result, sends, gemini_tools, trace >>

----------------------------------------------------------------------------
(* Bounds of the model *)

MaxTurns == 2        \* inputs read by chat_loop in one run of main
MaxCalls == 3        \* method calls made by an API caller
MaxExchanges == 3    \* send_message calls in one process_query
MaxTools == 3        \* tools in a list handed to the schema translation
MaxTranslations == 2 \* translations of one list

----------------------------------------------------------------------------
(* The environment: the tool server and the language model *)

\* The tools of the server of src/main.py, as list_tools reports them.
\* inputSchema is a JSON object: a function from keys to values, <<>> when
\* the tool has none (None or {}); a missing key is absent from its DOMAIN.
\* Of a parameter's schema only the keys the client reads are kept.
RollDiceTool ==
    [name |-> "roll_dice",
     description |-> "Rolled n_dice 6-sided dice and return the results.",
     inputSchema |-> [properties |-> [n_dice |-> [type |-> "integer"]]]]

AddNumberTool ==
    [name |-> "add_number",
     description |-> "Add two number together",
     inputSchema |-> [properties |-> [a |-> [type |-> "number"],
                                      b |-> [type |-> "number"]],
                      required |-> << "a", "b" >>]]

ServerTools == << RollDiceTool, AddNumberTool >>

\* Tools other servers may advertise: without inputSchema and description
\* ("None" stands for None), with a schema that has no properties map, with
\* parameters that give no type or no description, and with a type tag that
\* genai.protos.Type does not have.
ToolUniverse ==
    { RollDiceTool,
      AddNumberTool,
      [name |-> "ping", description |-> "None", inputSchema |-> <<>>],
      [name |-> "list_all", description |-> "",
       inputSchema |-> [required |-> << "limit" >>]],
      [name |-> "add_note", description |-> "Attach a note",
       inputSchema |->
           [properties |-> [text |-> [description |-> "free text"],
                            tags |-> [type |-> "array",
                                      description |-> "labels"],
                            pinned |-> [type |-> "boolean"]],
            required |-> << "text", "author" >>]],
      [name |-> "expenses_on", description |-> "Expenses of one day",
       inputSchema |-> [properties |-> [day |-> [type |-> "date"],
                                        note |-> [type |-> "string"]],
                        required |-> << "day" >>]] }

\* The tool lists of at most n tools, names unique within a list.
RECURSIVE ToolListsUpTo(_)
ToolListsUpTo(n) ==
    IF n = 0 THEN { <<>> }
    ELSE LET shorter == ToolListsUpTo(n - 1)
             longer == { Append(l, t) :
                           l \in { x \in shorter : Len(x) = n - 1 },
                           t \in ToolUniverse }
         IN shorter \cup
            { l \in longer :
                \A i, j \in 1..n : i # j => l[i].name # l[j].name }

ToolLists == ToolListsUpTo(MaxTools)

\* Resources a server may advertise (uri unique).
ResourceUniverse ==
    { [uri |-> "expense://categories", name |-> "categories"],
      [uri |-> "expense://budget", name |-> "budget"] }

\* The lists list_resources may return: duplicate-free, in any order.
ResourceLists ==
    {<<>>} \cup { <<r>> : r \in ResourceUniverse }
           \cup { p \in ResourceUniverse \X ResourceUniverse : p[1] # p[2] }

\* The text content the server holds for a resource.
ResourceContent(uri) ==
    IF uri = "expense://categories" THEN "food,travel" ELSE "limit=100"

\* Parts a model response may carry.
TextPart(t) == [kind |-> "text", text |-> t]
CallPart(n, a) == [kind |-> "function_call", name |-> n, args |-> a]

Parts ==
    { TextPart("The result is 5."),
      CallPart("add_number", [a |-> 2, b |-> 3]),
      CallPart("roll_dice", [n_dice |-> 1]),
      CallPart("roll_dice", [n_dice |-> 0]),
      CallPart("delete_expense", [id |-> 7]) }

\* The parts of a response of two parts: a text or a call, followed by a
\* text or another call.
FirstParts ==
    { TextPart("The result is 5."),
      CallPart("add_number", [a |-> 2, b |-> 3]) }

SecondParts ==
    { TextPart("The result is 5."),
      CallPart("roll_dice", [n_dice |-> 1]) }

\* response.candidates[0].content.parts: zero, one or two parts.
ModelResponses ==
    {<<>>} \cup { <<p>> : p \in Parts }
           \cup { <<p, q>> : p \in FirstParts, q \in SecondParts }

\* random.randint(1, 6): the faces of a die, and a face as text.
Faces == 1..6
FaceText(f) ==
    CASE f = 1 -> "1" [] f = 2 -> "2" [] f = 3 -> "3"
      [] f = 4 -> "4" [] f = 5 -> "5" [] f = 6 -> "6"

\* The answers the server may give to call_tool(name, arguments) when it
\* answers: add_number returns the sum; roll_dice returns n_dice faces, each
\* drawn from 1..6, so an empty list (no content item) for n_dice = 0; a name
\* the server does not host is reported as an error result.
ServerCallTool(name, args) ==
    IF name = "add_number" /\ DOMAIN args = {"a", "b"}
    THEN { [content |-> << IF args.a + args.b = 5 THEN "5.0" ELSE "?" >>,
            isError |-> FALSE] }
    ELSE IF name = "roll_dice" /\ DOMAIN args = {"n_dice"}
    THEN { [content |-> [i \in 1..args.n_dice |-> FaceText(faces[i])],
            isError |-> FALSE] : faces \in [1..args.n_dice -> Faces] }
    ELSE { [content |-> << "Unknown tool: " \o name >>, isError |-> TRUE] }

NoResult == [content |-> <<>>, isError |-> FALSE]
NoOutcome == [op |-> "none", kind |-> "none", value |-> ""]

----------------------------------------------------------------------------
(* Control transfer: return from a method, or an exception leaving it *)

\* Where control goes when connect_to_server returns.
AfterConnect == IF driver = "main" THEN "l_input" ELSE "idle"

\* Where an exception raised inside connect_to_server goes: main catches it
\* (except Exception) and runs its finally clause.
ConnectRaised == IF driver = "main" THEN "k_session" ELSE "idle"

\* Where control goes when process_query returns.
AfterQuery == IF driver = "main" THEN "l_input" ELSE "idle"

\* Variant of QueryRaised: the exception ends chat_loop.
QueryRaisedLeavesLoop == IF driver = "main" THEN "k_session" ELSE "idle"

\* Where an Exception raised inside process_query goes: chat_loop catches
\* it, reports it and continues its while loop.
QueryRaised == IF driver = "main" THEN "l_input" ELSE "idle"

\* Where control goes when cleanup returns.
AfterCleanup == IF driver = "main" THEN "exit" ELSE "idle"

\* The steps of connect_to_server.
ConnectSteps ==
    << "open_transport", "enter_session", "initialize", "list_tools",
       "list_resources" >>

\* The exceptions of an interrupt; neither is caught by except Exception.
Interrupts == {"KeyboardInterrupt", "CancelledError"}

\* One step of connect_to_server, as it ended.
Step(name, ok) == [step |-> name, ok |-> ok]

Returned(op, v) == [op |-> op, kind |-> "return", value |-> v]
Raised(op, e) == [op |-> op, kind |-> "raise", value |-> e]

\* if __name__ == "__main__": asyncio.run(main()) is the script's last
\* statement: the exit status is 0 when main returns and non-zero when an
\* exception leaves the script.
ExitCode(o) == IF o.kind = "return" THEN 0 ELSE 1

\* Where an exception raised inside cleanup goes: main calls cleanup in its
\* finally clause, so the exception leaves main.
CleanupRaised == IF driver = "main" THEN "exit" ELSE "idle"

----------------------------------------------------------------------------
(* The state after construction: MCPClient.__init__ *)

InitFields ==
    /\ session = "None"
    /\ stdio_context = "None"
    /\ available_resources = <<>>
    /\ sessionState = "none"
    /\ transportState = "none"
    /\ initialized = FALSE
    /\ sessionExits = 0
    /\ transportExits = 0
    /\ connLog = <<>>
    /\ reads = 0
    /\ turns = 0
    /\ user_input = ""
    /\ pending = "None"
    /\ resIdx = 1
    /\ resources_text = ""
    /\ fetchLog = <<>>
    /\ response = <<>>
    /\ tool_result = NoResult
    /\ sends = 0
    /\ gemini_tools = <<>>
    /\ trace = <<>>
    /\ outcome = NoOutcome

InitClient == available_tools = <<>> /\ InitFields

\* The module is being run as a script; the client that main() constructs
\* has these fields.
Init == InitClient /\ driver = "main" /\ pc = "m_import"

\* A caller has constructed the client and calls its methods.
InitApi == InitClient /\ driver = "api" /\ pc = "idle"

----------------------------------------------------------------------------
(* connect_to_server *)

\* Module level: GEMINI_API_KEY = os.getenv("GEMINI_API_KEY");
\* if not GEMINI_API_KEY: raise ValueError(...).  The exception is raised
\* while the module is executed, before main() is called.
CheckCredential ==
    /\ pc = "m_import"
    /\ \/ /\ pc' = "m_connect"
          /\ UNCHANGED outcome
       \/ /\ pc' = "exit"
          /\ outcome' = Raised("module", "ValueError")
    /\ UNCHANGED << clientVars, connVars, driver, turns, user_input, pending,
                    aggVars, queryVars >>

\* main: await client.connect_to_server(SERVER_SCRIPT)
MainConnect ==
    /\ pc = "m_connect"
    /\ pc' = "c_stdio"
    /\ UNCHANGED << clientVars, connVars, driver, turns, user_input, pending,
                    aggVars, queryVars, outcome >>

\* self.stdio_context = stdio_client(...); await self.stdio_context.__aenter__()
\* The attribute is assigned before the context is entered; entering may fail.
ConnectOpenTransport ==
    /\ pc = "c_stdio"
    /\ stdio_context' = "obj"
    /\ transportExits' = 0
    /\ \/ /\ transportState' = "entered"
          /\ connLog' = << Step("open_transport", TRUE) >>
          /\ pc' = "c_session"
          /\ UNCHANGED outcome
       \/ /\ transportState' = "created"
          /\ connLog' = << Step("open_transport", FALSE) >>
          /\ pc' = ConnectRaised
          /\ outcome' = Raised("connect_to_server", "ConnectionError")
    /\ UNCHANGED << session, available_tools, available_resources,
                    sessionState, initialized, sessionExits, reads, driver,
                    turns, user_input, pending, aggVars, queryVars >>

\* self.session = ClientSession(...); await self.session.__aenter__()
ConnectEnterSession ==
    /\ pc = "c_session"
    /\ session' = "obj"
    /\ sessionExits' = 0
    /\ initialized' = FALSE
    /\ reads' = 0
    /\ \/ /\ sessionState' = "entered"
          /\ connLog' = Append(connLog, Step("enter_session", TRUE))
          /\ pc' = "c_init"
          /\ UNCHANGED outcome
       \/ /\ sessionState' = "created"
          /\ connLog' = Append(connLog, Step("enter_session", FALSE))
          /\ pc' = ConnectRaised
          /\ outcome' = Raised("connect_to_server", "ConnectionError")
    /\ UNCHANGED << stdio_context, available_tools, available_resources,
                    transportState, transportExits, driver, turns, user_input,
                    pending, aggVars, queryVars >>

\* Variant of ConnectInitialize: a failed handshake is ignored and the
\* listing goes on.
ConnectInitializeIgnoresFailure ==
    /\ pc = "c_init"
    /\ \/ /\ initialized' = TRUE
          /\ connLog' = Append(connLog, Step("initialize", TRUE))
       \/ /\ connLog' = Append(connLog, Step("initialize", FALSE))
          /\ UNCHANGED initialized
    /\ pc' = "c_tools"
    /\ UNCHANGED << clientVars, sessionState, transportState, sessionExits,
                    transportExits, reads, driver, turns, user_input, pending,
                    aggVars, queryVars, outcome >>

\* await self.session.initialize()
ConnectInitialize ==
    /\ pc = "c_init"
    /\ \/ /\ initialized' = TRUE
          /\ connLog' = Append(connLog, Step("initialize", TRUE))
          /\ pc' = "c_tools"
          /\ UNCHANGED outcome
       \/ /\ connLog' = Append(connLog, Step("initialize", FALSE))
          /\ pc' = ConnectRaised
          /\ outcome' = Raised("connect_to_server", "ConnectionError")
          /\ UNCHANGED initialized
    /\ UNCHANGED << clientVars, sessionState, transportState, sessionExits,
                    transportExits, reads, driver, turns, user_input, pending,
                    aggVars, queryVars >>

\* tools_response = await self.session.list_tools()
ConnectListTools ==
    /\ pc = "c_tools"
    /\ \/ /\ available_tools' = ServerTools
          /\ connLog' = Append(connLog, Step("list_tools", TRUE))
          /\ pc' = "c_resources"
          /\ UNCHANGED outcome
       \/ /\ connLog' = Append(connLog, Step("list_tools", FALSE))
          /\ pc' = ConnectRaised
          /\ outcome' = Raised("connect_to_server", "ConnectionError")
          /\ UNCHANGED available_tools
    /\ UNCHANGED << session, stdio_context, available_resources,
                    sessionState, transportState, initialized, sessionExits,
                    transportExits, reads, driver, turns, user_input, pending,
                    aggVars, queryVars >>

\* resources_response = await self.session.list_resources(); then return
ConnectListResources ==
    /\ pc = "c_resources"
    /\ \/ /\ \E rs \in ResourceLists : available_resources' = rs
          /\ connLog' = Append(connLog, Step("list_resources", TRUE))
          /\ pc' = AfterConnect
          /\ outcome' = Returned("connect_to_server", "")
       \/ /\ connLog' = Append(connLog, Step("list_resources", FALSE))
          /\ pc' = ConnectRaised
          /\ outcome' = Raised("connect_to_server", "ConnectionError")
          /\ UNCHANGED available_resources
    /\ UNCHANGED << session, stdio_context, available_tools,
                    sessionState, transportState, initialized, sessionExits,
                    transportExits, reads, driver, turns, user_input, pending,
                    aggVars, queryVars >>

----------------------------------------------------------------------------
(* cleanup *)

\* Whose ending an exception raised by cleanup is: in main, cleanup runs in
\* the finally clause and the exception leaves main.
CleanupCaller == IF driver = "main" THEN "main" ELSE "cleanup"

\* How the call ends when cleanup returns: in main, the finally clause is
\* done and an exception pending through it leaves main; otherwise main
\* returns.
CleanupOutcome ==
    IF driver = "main"
    THEN (IF pending = "None" THEN Returned("main", "")
          ELSE Raised("main", pending))
    ELSE Returned("cleanup", "")

\* Variant of CleanupSession: the transport is exited first.
CleanupSessionExitsTransport ==
    /\ pc = "k_session"
    /\ IF stdio_context = "None"
       THEN /\ pc' = "k_stdio"
            /\ UNCHANGED << transportState, transportExits, outcome >>
       ELSE /\ transportExits' = transportExits + 1
            /\ transportState' = "exited"
            /\ \/ /\ pc' = "k_stdio"
                  /\ UNCHANGED outcome
               \/ /\ pc' = CleanupRaised
                  /\ outcome' = Raised(CleanupCaller, "TeardownError")
    /\ UNCHANGED << clientVars, sessionState, initialized, sessionExits,
                    connLog, reads, driver, turns, user_input, pending,
                    aggVars, queryVars >>

\* if self.session: await self.session.__aexit__(None, None, None)
\* The exit step may raise; then cleanup is left at once.
CleanupSession ==
    /\ pc = "k_session"
    /\ IF session = "None"
       THEN /\ pc' = "k_stdio"
            /\ UNCHANGED << sessionState, sessionExits, outcome >>
       ELSE /\ sessionExits' = sessionExits + 1
            /\ sessionState' = "exited"
            /\ \/ /\ pc' = "k_stdio"
                  /\ UNCHANGED outcome
               \/ /\ pc' = CleanupRaised
                  /\ outcome' = Raised(CleanupCaller, "TeardownError")
    /\ UNCHANGED << clientVars, transportState, initialized, transportExits,
                    connLog, reads, driver, turns, user_input, pending,
                    aggVars, queryVars >>

\* if self.stdio_context: await self.stdio_context.__aexit__(None, None, None)
\* and return; in main an exception pending through the finally clause
\* then leaves main.
CleanupTransport ==
    /\ pc = "k_stdio"
    /\ IF stdio_context = "None"
       THEN /\ pc' = AfterCleanup
            /\ outcome' = CleanupOutcome
            /\ UNCHANGED << transportState, transportExits >>
       ELSE /\ transportExits' = transportExits + 1
            /\ transportState' = "exited"
            /\ \/ /\ pc' = AfterCleanup
                  /\ outcome' = CleanupOutcome
               \/ /\ pc' = CleanupRaised
                  /\ outcome' = Raised(CleanupCaller, "TeardownError")
    /\ UNCHANGED << clientVars, sessionState, initialized, sessionExits,
                    connLog, reads, driver, turns, user_input, pending,
                    aggVars, queryVars >>

\* The locals of process_query and _get_resources_content outside a call.
NoAggLocals == resIdx' = 1 /\ resources_text' = "" /\ fetchLog' = <<>>
NoQueryLocals ==
    /\ response' = <<>> /\ tool_result' = NoResult /\ sends' = 0
    /\ gemini_tools' = <<>> /\ trace' = <<>>

----------------------------------------------------------------------------
(* _convert_tools_for_gemini *)

\* The members of the enumeration genai.protos.Type.
TypeNames ==
    { "TYPE_UNSPECIFIED", "STRING", "NUMBER", "INTEGER", "BOOLEAN", "ARRAY",
      "OBJECT" }

\* str.upper() on the type tags that occur.
Upper(t) ==
    CASE t = "string" -> "STRING"
      [] t = "number" -> "NUMBER"
      [] t = "integer" -> "INTEGER"
      [] t = "boolean" -> "BOOLEAN"
      [] t = "array" -> "ARRAY"
      [] t = "object" -> "OBJECT"
      [] t = "date" -> "DATE"
      [] OTHER -> t

\* if tool.inputSchema and 'properties' in tool.inputSchema
HasProperties(tool) ==
    DOMAIN tool.inputSchema # {} /\ "properties" \in DOMAIN tool.inputSchema

\* param_info.get('type', 'string').upper()
ParamType(param_info) ==
    Upper(IF "type" \in DOMAIN param_info THEN param_info.type ELSE "string")

\* param_info.get('description', '')
ParamDescription(param_info) ==
    IF "description" \in DOMAIN param_info THEN param_info.description ELSE ""

\* The dict properties built by the inner for loop; {} when the test fails.
Properties(tool) ==
    IF HasProperties(tool)
    THEN LET schema_properties == tool.inputSchema.properties IN
         [ param_name \in DOMAIN schema_properties |->
             [type |-> ParamType(schema_properties[param_name]),
              description |->
                  ParamDescription(schema_properties[param_name])] ]
    ELSE <<>>

\* Variant of Required: the required list is copied whether or not the
\* schema has a properties map.
RequiredWithoutProperties(tool) ==
    IF "required" \in DOMAIN tool.inputSchema
    THEN tool.inputSchema.required
    ELSE <<>>

\* required = []; inside the properties test:
\* if 'required' in tool.inputSchema: required = tool.inputSchema['required']
Required(tool) ==
    IF HasProperties(tool) /\ "required" \in DOMAIN tool.inputSchema
    THEN tool.inputSchema.required
    ELSE <<>>

\* Variant of TypeOf: a tag the enumeration lacks is taken as STRING.
TypeOfCoerces(tag) ==
    [ok |-> TRUE, value |-> IF tag \in TypeNames THEN tag ELSE "STRING"]

\* getattr(genai.protos.Type, props['type']): the member of that name, or
\* AttributeError when there is none.
TypeOf(tag) == [ok |-> tag \in TypeNames, value |-> tag]

\* Every getattr of the declaration's construction succeeds.
Declarable(tool) ==
    \A param_name \in DOMAIN Properties(tool) :
        TypeOf(Properties(tool)[param_name].type).ok

\* Variant of FunctionDeclaration: the description is left empty.
FunctionDeclarationNoDescription(tool) ==
    [name |-> tool.name,
     description |-> "",
     parameters |->
         [type |-> "OBJECT",
          properties |->
              [ param_name \in DOMAIN Properties(tool) |->
                  [type |-> TypeOf(Properties(tool)[param_name].type).value,
                   description |-> Properties(tool)[param_name].description] ],
          required |-> Required(tool)]]

\* genai.protos.FunctionDeclaration(name=tool.name,
\*     description=tool.description or "", parameters=Schema(type=OBJECT,
\*     properties={...}, required=required))
FunctionDeclaration(tool) ==
    [name |-> tool.name,
     description |-> IF tool.description = "None" THEN "" ELSE tool.description,
     parameters |->
         [type |-> "OBJECT",
          properties |->
              [ param_name \in DOMAIN Properties(tool) |->
                  [type |-> TypeOf(Properties(tool)[param_name].type).value,
                   description |-> Properties(tool)[param_name].description] ],
          required |-> Required(tool)]]

\* The for loop over self.available_tools: the declarations in the order of
\* the tools, or the AttributeError of the first tool that has no declaration.
ConvertRaises(tools) == \E i \in 1..Len(tools) : ~Declarable(tools[i])
ConvertTools(tools) ==
    [ i \in 1..Len(tools) |-> FunctionDeclaration(tools[i]) ]

\* One call of _convert_tools_for_gemini on the client's tool list.
Translate ==
    /\ pc = "t_idle"
    /\ turns < MaxTranslations
    /\ turns' = turns + 1
    /\ IF ConvertRaises(available_tools)
       THEN /\ gemini_tools' = <<>>
            /\ outcome' = Raised("_convert_tools_for_gemini", "AttributeError")
       ELSE /\ gemini_tools' = ConvertTools(available_tools)
            /\ outcome' = Returned("_convert_tools_for_gemini", "")
    /\ UNCHANGED << clientVars, connVars, pc, driver, user_input, pending,
                    aggVars, response, tool_result, sends, trace >>

----------------------------------------------------------------------------
(* _get_resources_content *)

\* f"\n{resource.name}:\n{result.contents[0].text}\n"
Block(name, content) == "\n" \o name \o ":\n" \o content \o "\n"

\* The session answers requests: entered, handshake done, not exited.
SessionReady ==
    session # "None" /\ sessionState = "entered" /\ initialized

\* Variant of ProcessQueryBegin: the resource list is fetched anew.
ProcessQueryBeginRelists ==
    /\ pc = "q_begin"
    /\ NoAggLocals
    /\ response' = <<>> /\ tool_result' = NoResult /\ sends' = 0
    /\ trace' = <<>>
    /\ gemini_tools' = ConvertTools(available_tools)
    /\ \E rs \in ResourceLists : available_resources' = rs
    /\ pc' = "q_resources"
    /\ UNCHANGED << session, stdio_context, available_tools, connVars, driver,
                    turns, user_input, pending, outcome >>

\* process_query, lines 57-64: the locals of a new call;
\* gemini_tools = self._convert_tools_for_gemini(), whose exception leaves
\* process_query.
ProcessQueryBegin ==
    /\ pc = "q_begin"
    /\ NoAggLocals
    /\ response' = <<>> /\ tool_result' = NoResult /\ sends' = 0
    /\ trace' = <<>>
    /\ IF ConvertRaises(available_tools)
       THEN /\ gemini_tools' = <<>>
            /\ pc' = QueryRaised
            /\ outcome' = Raised("process_query", "AttributeError")
       ELSE /\ gemini_tools' = ConvertTools(available_tools)
            /\ pc' = "q_resources"
            /\ UNCHANGED outcome
    /\ UNCHANGED << clientVars, connVars, driver, turns, user_input,
                    pending >>

\* Variant of ReadResource: the first failed read ends the loop.
ReadResourceStopsOnFailure ==
    /\ pc = "q_resources"
    /\ resIdx <= Len(available_resources)
    /\ LET resource == available_resources[resIdx] IN
       \/ /\ SessionReady
          /\ resources_text' =
                 resources_text \o Block(resource.name,
                                         ResourceContent(resource.uri))
          /\ fetchLog' = Append(fetchLog, [uri |-> resource.uri, ok |-> TRUE])
          /\ resIdx' = resIdx + 1
       \/ /\ fetchLog' = Append(fetchLog, [uri |-> resource.uri, ok |-> FALSE])
          /\ resIdx' = Len(available_resources) + 1
          /\ UNCHANGED resources_text
    /\ reads' = IF session = "None" THEN reads ELSE reads + 1
    /\ UNCHANGED << clientVars, sessionState, transportState, initialized,
                    sessionExits, transportExits, connLog, pc, driver, turns,
                    user_input, pending, queryVars, outcome >>

\* One iteration of the for loop: read_resource succeeds and its block is
\* appended, or it raises (always so on a missing or unusable session) and
\* the except clause prints a warning; either way the loop goes on.
ReadResource ==
    /\ pc = "q_resources"
    /\ resIdx <= Len(available_resources)
    /\ LET resource == available_resources[resIdx] IN
       \/ /\ SessionReady
          /\ resources_text' =
                 resources_text \o Block(resource.name,
                                         ResourceContent(resource.uri))
          /\ fetchLog' = Append(fetchLog, [uri |-> resource.uri, ok |-> TRUE])
       \/ /\ fetchLog' = Append(fetchLog, [uri |-> resource.uri, ok |-> FALSE])
          /\ UNCHANGED resources_text
    /\ resIdx' = resIdx + 1
    /\ reads' = IF session = "None" THEN reads ELSE reads + 1
    /\ UNCHANGED << clientVars, sessionState, transportState, initialized,
                    sessionExits, transportExits, connLog, pc, driver, turns,
                    user_input, pending, queryVars, outcome >>

\* Variant of AggregateDone: the aggregation may return before every
\* resource has been read.
AggregateDoneEarly ==
    /\ pc = "q_resources"
    /\ pc' = "q_send"
    /\ UNCHANGED << clientVars, connVars, driver, turns, user_input, pending,
                    aggVars, queryVars, outcome >>

\* return resources_text
AggregateDone ==
    /\ pc = "q_resources"
    /\ resIdx > Len(available_resources)
    /\ pc' = "q_send"
    /\ UNCHANGED << clientVars, connVars, driver, turns, user_input, pending,
                    aggVars, queryVars, outcome >>

----------------------------------------------------------------------------
(* process_query: the call loop *)

\* hasattr(part, 'function_call') and part.function_call
IsFunctionCall(part) == part.kind = "function_call"

\* while response.candidates[0].content.parts: part = parts[0]; if <call>: ...
\* else: break.  The loop body runs iff the first part is a function call.
LoopContinues(parts) == Len(parts) > 0 /\ IsFunctionCall(parts[1])

\* Variant of DictOf: the arguments are not carried over.
DictOfDropsArgs(args) == [k \in {} |-> 0]

\* dict(function_call.args)
DictOf(args) == [k \in DOMAIN args |-> args[k]]

RECURSIVE JoinTexts(_)
JoinTexts(parts) ==
    IF Len(parts) = 0 THEN ""
    ELSE IF Len(parts) = 1 THEN parts[1].text
    ELSE parts[1].text \o "\n" \o JoinTexts(Tail(parts))

\* response.text is defined when there is at least one part and every part
\* is text; otherwise the accessor raises ValueError.
HasText(parts) ==
    Len(parts) > 0 /\ \A i \in 1..Len(parts) : parts[i].kind = "text"

\* chat = model_with_tools.start_chat(...); response = chat.send_message(query)
SendQuery ==
    /\ pc = "q_send"
    /\ sends' = 1
    /\ \/ \E r \in ModelResponses :
             /\ response' = r
             /\ trace' = trace \o << [ev |-> "query"],
                                     [ev |-> "response", parts |-> r] >>
             /\ pc' = "q_loop"
             /\ UNCHANGED outcome
       \/ /\ trace' = Append(trace, [ev |-> "query"])
          /\ pc' = QueryRaised
          /\ outcome' = Raised("process_query", "ModelError")
          /\ UNCHANGED response
    /\ NoAggLocals
    /\ UNCHANGED << clientVars, connVars, driver, turns, user_input, pending,
                    tool_result, gemini_tools >>

\* Variant of CallTool: a failure of call_tool is caught and handed to the
\* model as the call's result.
CallToolFeedsFailure ==
    /\ pc = "q_loop"
    /\ Len(response) > 0
    /\ response[1].kind = "function_call"
    /\ session # "None"
    /\ LET call == [ev |-> "call", name |-> response[1].name,
                    args |-> response[1].args, ready |-> SessionReady]
       IN \/ /\ SessionReady
             /\ tool_result' \in ServerCallTool(response[1].name,
                                                response[1].args)
             /\ trace' = trace \o << call, [ev |-> "result",
                                            result |-> tool_result'] >>
          \/ /\ tool_result' = [content |-> << "ToolCallError" >>,
                                isError |-> TRUE]
             /\ trace' = Append(trace, call)
    /\ pc' = "q_feed"
    /\ UNCHANGED << clientVars, connVars, driver, turns, user_input, pending,
                    aggVars, response, sends, gemini_tools, outcome >>

\* Variant of CallTool: of two requested calls the second is dispatched.
CallToolSecondRequest ==
    /\ pc = "q_loop"
    /\ LoopContinues(response)
    /\ LET function_call ==
               IF Len(response) > 1 /\ IsFunctionCall(response[2])
               THEN response[2] ELSE response[1]
           function_name == function_call.name
           function_args == DictOf(function_call.args)
           call == [ev |-> "call", name |-> function_name,
                    args |-> function_args, ready |-> SessionReady]
       IN IF session = "None"
          THEN /\ pc' = QueryRaised
               /\ outcome' = Raised("process_query", "AttributeError")
               /\ UNCHANGED << tool_result, trace >>
          ELSE \/ /\ SessionReady
                  /\ tool_result' \in ServerCallTool(function_name,
                                                     function_args)
                  /\ trace' = trace \o << call, [ev |-> "result",
                                                 result |-> tool_result'] >>
                  /\ pc' = "q_feed"
                  /\ UNCHANGED outcome
               \/ /\ trace' = Append(trace, call)
                  /\ pc' = QueryRaised
                  /\ outcome' = Raised("process_query", "ToolCallError")
                  /\ UNCHANGED tool_result
    /\ UNCHANGED << clientVars, connVars, driver, turns, user_input, pending,
                    aggVars, response, sends, gemini_tools >>

\* tool_result = await self.session.call_tool(function_name,
\*                                             arguments=function_args)
\* With self.session None the attribute access raises; otherwise the request
\* is made on the session, which answers or raises.
CallTool ==
    /\ pc = "q_loop"
    /\ LoopContinues(response)
    /\ LET function_call == response[1]
           function_name == function_call.name
           function_args == DictOf(function_call.args)
           call == [ev |-> "call", name |-> function_name,
                    args |-> function_args, ready |-> SessionReady]
       IN IF session = "None"
          THEN /\ pc' = QueryRaised
               /\ outcome' = Raised("process_query", "AttributeError")
               /\ UNCHANGED << tool_result, trace >>
          ELSE \/ /\ SessionReady
                  /\ tool_result' \in ServerCallTool(function_name,
                                                     function_args)
                  /\ trace' = trace \o << call, [ev |-> "result",
                                                 result |-> tool_result'] >>
                  /\ pc' = "q_feed"
                  /\ UNCHANGED outcome
               \/ /\ trace' = Append(trace, call)
                  /\ pc' = QueryRaised
                  /\ outcome' = Raised("process_query", "ToolCallError")
                  /\ UNCHANGED tool_result
    /\ UNCHANGED << clientVars, connVars, driver, turns, user_input, pending,
                    aggVars, response, sends, gemini_tools >>

\* print(tool_result.content[0].text); response = chat.send_message(
\*   Content(parts=[Part(function_response=FunctionResponse(name=function_name,
\*   response={'result': tool_result.content[0].text}))]))
FeedResult ==
    /\ pc = "q_feed"
    /\ IF Len(tool_result.content) = 0
       THEN /\ pc' = QueryRaised
            /\ outcome' = Raised("process_query", "IndexError")
            /\ UNCHANGED << response, sends, trace >>
       ELSE /\ sends < MaxExchanges
            /\ sends' = sends + 1
            /\ LET feed == [ev |-> "feed", name |-> response[1].name,
                            result |-> tool_result.content[1]]
               IN \/ \E r \in ModelResponses :
                        /\ response' = r
                        /\ trace' = trace \o << feed, [ev |-> "response",
                                                       parts |-> r] >>
                        /\ pc' = "q_loop"
                        /\ UNCHANGED outcome
                  \/ /\ trace' = Append(trace, feed)
                     /\ pc' = QueryRaised
                     /\ outcome' = Raised("process_query", "ModelError")
                     /\ UNCHANGED response
    /\ UNCHANGED << clientVars, connVars, driver, turns, user_input, pending,
                    aggVars, tool_result, gemini_tools >>

\* The while condition is false or the else branch breaks.
LoopExit ==
    /\ pc = "q_loop"
    /\ ~LoopContinues(response)
    /\ pc' = "q_text"
    /\ UNCHANGED << clientVars, connVars, driver, turns, user_input, pending,
                    aggVars, queryVars, outcome >>

\* Variant of ExtractText: only the first part's text is returned.
ExtractTextFirstPart ==
    /\ pc = "q_text"
    /\ IF HasText(response)
       THEN /\ pc' = AfterQuery
            /\ outcome' = Returned("process_query", response[1].text)
       ELSE /\ pc' = QueryRaised
            /\ outcome' = Raised("process_query", "ValueError")
    /\ UNCHANGED << clientVars, connVars, driver, turns, user_input, pending,
                    aggVars, queryVars >>

\* final_response = response.text; return final_response
ExtractText ==
    /\ pc = "q_text"
    /\ IF HasText(response)
       THEN /\ pc' = AfterQuery
            /\ outcome' = Returned("process_query", JoinTexts(response))
       ELSE /\ pc' = QueryRaised
            /\ outcome' = Raised("process_query", "ValueError")
    /\ UNCHANGED << clientVars, connVars, driver, turns, user_input, pending,
                    aggVars, queryVars >>

----------------------------------------------------------------------------
(* chat_loop *)

UserInputs == { "quit", "EXIT", " q ", "", "  ", "what is 2 plus 3?" }

\* str.strip()
Strip(s) == CASE s = " q " -> "q" [] s = "  " -> "" [] OTHER -> s

\* str.lower()
Lower(s) == CASE s = "EXIT" -> "exit" [] OTHER -> s

\* user_input = (await asyncio.to_thread(input, "\nYou: ")).strip() and the
\* two tests on it: a sentinel breaks the loop (chat_loop returns and main
\* runs its finally clause), an empty line continues, anything else is a query.
\* The previous turn's answer or error has been printed by now.
ReadInput ==
    /\ pc = "l_input"
    /\ turns < MaxTurns
    /\ turns' = turns + 1
    /\ \E line \in UserInputs : user_input' = Strip(line)
    /\ pc' = IF Lower(user_input') \in {"quit", "exit", "q"} THEN "k_session"
             ELSE IF user_input' = "" THEN "l_input"
             ELSE "q_begin"
    /\ outcome' = NoOutcome
    /\ NoAggLocals
    /\ NoQueryLocals
    /\ UNCHANGED << clientVars, connVars, driver, pending >>

\* input() raises an Exception (EOFError): reported, the loop continues.
InputFails ==
    /\ pc = "l_input"
    /\ turns < MaxTurns
    /\ turns' = turns + 1
    /\ outcome' = Raised("input", "EOFError")
    /\ NoAggLocals
    /\ NoQueryLocals
    /\ UNCHANGED << clientVars, connVars, pc, driver, user_input, pending >>

\* An interrupt while the input read is awaited: either KeyboardInterrupt is
\* caught in the loop (break), or the task is cancelled and CancelledError,
\* not an Exception, passes through both try statements to main's finally.
InterruptInput ==
    /\ pc = "l_input"
    /\ pc' = "k_session"
    /\ \/ /\ outcome' = Raised("input", "KeyboardInterrupt")
          /\ UNCHANGED pending
       \/ /\ outcome' = Raised("input", "CancelledError")
          /\ pending' = "CancelledError"
    /\ NoAggLocals
    /\ NoQueryLocals
    /\ UNCHANGED << clientVars, connVars, driver, turns, user_input >>

\* An interrupt while a turn is processed in chat_loop: KeyboardInterrupt
\* raised in the running code is caught in the loop (break), or the task is
\* cancelled at the pending await and CancelledError passes to main's
\* finally.  Either way the frames of process_query are unwound; the turn,
\* not process_query by itself, has ended.
InterruptTurn ==
    /\ driver = "main"
    /\ pc \in {"q_begin", "q_resources", "q_send", "q_loop", "q_feed", "q_text"}
    /\ pc' = "k_session"
    /\ \/ /\ outcome' = Raised("turn", "KeyboardInterrupt")
          /\ UNCHANGED pending
       \/ /\ outcome' = Raised("turn", "CancelledError")
          /\ pending' = "CancelledError"
    /\ NoAggLocals
    /\ NoQueryLocals
    /\ UNCHANGED << clientVars, connVars, driver, turns, user_input >>

\* An interrupt while main awaits a step of connect_to_server: the
\* exception is raised at the await, after the attribute of the step has been
\* assigned; neither KeyboardInterrupt nor CancelledError is an Exception, so
\* it passes main's except clause and is pending through the finally clause.
InterruptConnect ==
    /\ driver = "main"
    /\ \/ /\ pc = "c_stdio"
          /\ stdio_context' = "obj"
          /\ transportExits' = 0
          /\ transportState' = "created"
          /\ connLog' = << Step("open_transport", FALSE) >>
          /\ UNCHANGED << session, sessionState, sessionExits, initialized,
                          reads >>
       \/ /\ pc = "c_session"
          /\ session' = "obj"
          /\ sessionExits' = 0
          /\ initialized' = FALSE
          /\ reads' = 0
          /\ sessionState' = "created"
          /\ connLog' = Append(connLog, Step("enter_session", FALSE))
          /\ UNCHANGED << stdio_context, transportExits, transportState >>
       \/ /\ pc \in {"c_init", "c_tools", "c_resources"}
          /\ connLog' =
                 Append(connLog, Step(ConnectSteps[Len(connLog) + 1], FALSE))
          /\ UNCHANGED << session, stdio_context, sessionState,
                          transportState, initialized, sessionExits,
                          transportExits, reads >>
    /\ pc' = "k_session"
    /\ \E e \in Interrupts :
          /\ pending' = e
          /\ outcome' = Raised("connect_to_server", e)
    /\ UNCHANGED << available_tools, available_resources, driver, turns,
                    user_input, aggVars, queryVars >>

\* An interrupt while main's finally clause awaits an __aexit__ of cleanup:
\* the exit has been called, the rest of cleanup is abandoned and the
\* exception leaves main.
InterruptCleanup ==
    /\ driver = "main"
    /\ \/ /\ pc = "k_session"
          /\ session # "None"
          /\ sessionExits' = sessionExits + 1
          /\ sessionState' = "exited"
          /\ UNCHANGED << transportState, transportExits >>
       \/ /\ pc = "k_stdio"
          /\ stdio_context # "None"
          /\ transportExits' = transportExits + 1
          /\ transportState' = "exited"
          /\ UNCHANGED << sessionState, sessionExits >>
    /\ pc' = "exit"
    /\ \E e \in Interrupts :
          /\ pending' = e
          /\ outcome' = Raised("main", e)
    /\ UNCHANGED << clientVars, initialized, connLog, reads, driver, turns,
                    user_input, aggVars, queryVars >>

----------------------------------------------------------------------------
(* A caller of the client's methods *)

Entry(method) ==
    CASE method = "connect_to_server" -> "c_stdio"
      [] method = "process_query" -> "q_begin"
      [] method = "cleanup" -> "k_session"

ApiCall ==
    /\ pc = "idle"
    /\ turns < MaxCalls
    /\ turns' = turns + 1
    /\ \E method \in {"connect_to_server", "process_query", "cleanup"} :
          pc' = Entry(method)
    /\ NoAggLocals
    /\ NoQueryLocals
    /\ UNCHANGED << clientVars, connVars, driver, user_input, pending,
                    outcome >>

----------------------------------------------------------------------------
(* Specifications *)

Methods ==
    \/ ConnectOpenTransport
    \/ ConnectEnterSession
    \/ ConnectInitialize
    \/ ConnectListTools
    \/ ConnectListResources
    \/ ProcessQueryBegin
    \/ ReadResource
    \/ AggregateDone
    \/ SendQuery
    \/ CallTool
    \/ FeedResult
    \/ LoopExit
    \/ ExtractText
    \/ CleanupSession
    \/ CleanupTransport

\* The program: main() connects, runs chat_loop and cleans up.
Next ==
    \/ CheckCredential
    \/ MainConnect
    \/ ReadInput
    \/ InputFails
    \/ InterruptInput
    \/ InterruptTurn
    \/ InterruptConnect
    \/ InterruptCleanup
    \/ Methods

Spec == Init /\ [][Next]_vars

\* The client used as a library: any sequence of method calls.
NextApi == ApiCall \/ Methods

SpecApi == InitApi /\ [][NextApi]_vars

\* The schema translation applied to any tool list a server may have
\* advertised.
InitConvert ==
    /\ InitFields
    /\ available_tools \in ToolLists
    /\ driver = "convert"
    /\ pc = "t_idle"

NextConvert == Translate

SpecConvert == InitConvert /\ [][NextConvert]_vars

----------------------------------------------------------------------------
(* Properties of process_query *)

\* The names of the tools listed at connect time.
ToolNames == { available_tools[i].name : i \in 1..Len(available_tools) }

IsResponseEv(e) == e.ev = "response"

\* The model responses received in this process_query, in order.
Responses == SelectSeq(trace, IsResponseEv)

HasFunctionCall(parts) ==
    \E i \in 1..Len(parts) : parts[i].kind = "function_call"

\* The last process_query has ended (returned or raised) and nothing has
\* happened since.
QueryEnded == outcome.op = "process_query"
QueryReturned == QueryEnded /\ outcome.kind = "return"

\* C1: every call_tool the client makes names a tool of the current tool
\* list: a function call whose name is not among available_tools is never
\* dispatched to the server.
C1_OnlyKnownToolsInvoked ==
    \A i \in 1..Len(trace) :
        trace[i].ev = "call" => trace[i].name \in ToolNames

\* The model answered with k >= 1 responses of exactly one function call for
\* a known tool each, and then with a response of text parts only.
CallsThenText(rs) ==
    /\ Len(rs) >= 2
    /\ \A i \in 1..(Len(rs) - 1) :
          /\ Len(rs[i].parts) = 1
          /\ rs[i].parts[1].kind = "function_call"
          /\ rs[i].parts[1].name \in ToolNames
    /\ HasText(rs[Len(rs)].parts)

\* The text of a response of one or two text parts.
PlainText(parts) ==
    IF Len(parts) = 1 THEN parts[1].text
    ELSE parts[1].text \o "\n" \o parts[2].text

\* C2: when the model answers with k function-call responses for known tools
\* and then plain text, the turn consists of exactly: the query, then for
\* each i the i-th response, one call_tool with its name and arguments, its
\* result, one function response with that name and result; then the final
\* response, whose text is returned.
C2_CallsFollowRequests ==
    (QueryEnded /\ CallsThenText(Responses)) =>
        LET rs == Responses
            k == Len(rs) - 1
        IN /\ outcome.kind = "return"
           /\ outcome.value = PlainText(rs[k + 1].parts)
           /\ sends = k + 1
           /\ Len(trace) = 4 * k + 2
           /\ trace[1].ev = "query"
           /\ trace[4 * k + 2] = rs[k + 1]
           /\ \A i \in 1..k :
                 LET at == 4 * i - 2
                     request == rs[i].parts[1]
                 IN /\ trace[at] = rs[i]
                    /\ trace[at + 1].ev = "call"
                    /\ trace[at + 1].name = request.name
                    /\ trace[at + 1].args = request.args
                    /\ trace[at + 2].ev = "result"
                    /\ Len(trace[at + 2].result.content) >= 1
                    /\ trace[at + 3].ev = "feed"
                    /\ trace[at + 3].name = request.name
                    /\ trace[at + 3].result = trace[at + 2].result.content[1]

\* Witness of C2: add_number(a=2, b=3) was invoked, "5.0" was fed back,
\* roll_dice(n_dice=1) was invoked next, and the final text was returned.
C2_Witness ==
    /\ QueryReturned
    /\ CallsThenText(Responses)
    /\ Len(Responses) = 3
    /\ Responses[1].parts[1] = CallPart("add_number", [a |-> 2, b |-> 3])
    /\ Responses[2].parts[1] = CallPart("roll_dice", [n_dice |-> 1])
    /\ trace[5] = [ev |-> "feed", name |-> "add_number", result |-> "5.0"]
    /\ outcome.value = "The result is 5."

\* C3 as stated: when the first response has no function call, process_query
\* returns its text after one exchange and without any call_tool.
C3_NoCallReturnsText ==
    (QueryEnded /\ Len(Responses) >= 1
                /\ ~HasFunctionCall(Responses[1].parts)) =>
        /\ outcome.kind = "return"
        /\ sends = 1
        /\ \A i \in 1..Len(trace) : trace[i].ev # "call"

\* C3 amended: when the first response has at least one part and no function
\* call, process_query returns its text after exactly one exchange and
\* without any call_tool; when it has no part at all, process_query raises
\* ValueError after one exchange and without any call_tool.
C3_TextReturnsInOneExchange ==
    (QueryEnded /\ Len(Responses) >= 1
                /\ ~HasFunctionCall(Responses[1].parts)) =>
        LET parts == Responses[1].parts IN
        /\ sends = 1
        /\ trace = << [ev |-> "query"], Responses[1] >>
        /\ IF Len(parts) >= 1
           THEN outcome = Returned("process_query", PlainText(parts))
           ELSE outcome = Raised("process_query", "ValueError")

\* Witness of C3: a single text part was returned after one exchange.
C3_Witness ==
    /\ QueryReturned
    /\ sends = 1
    /\ Responses = << [ev |-> "response",
                       parts |-> << TextPart("The result is 5.") >>] >>
    /\ outcome.value = "The result is 5."

\* C4: the call loop is left only on a response that carries no function
\* call, in whichever part position: when process_query goes on to extract
\* the answer, the latest response has no pending function call.
C4_LoopRunsWhileCallPending ==
    pc = "q_text" => ~HasFunctionCall(response)

----------------------------------------------------------------------------
(* Properties of the connection lifecycle *)

\* connect_to_server has entered the transport and the protocol session.
Acquired ==
    /\ transportState \in {"entered", "exited"}
    /\ sessionState \in {"entered", "exited"}

\* C5: once the transport and the session are acquired, however main ends
\* (quit, exception, interrupt, or an error raised while the session is torn
\* down), the exit steps of both the session and the transport have been
\* executed when the process exits.
C5_TeardownOnEveryExit ==
    (driver = "main" /\ pc = "exit" /\ Acquired) =>
        /\ sessionExits >= 1
        /\ transportExits >= 1

\* C6: cleanup is idempotent: no exit step is ever executed on a session or
\* transport that has been exited before, so an object is exited at most once.
C6_CleanupIdempotent ==
    /\ sessionExits <= 1
    /\ transportExits <= 1

\* The blocks of the resources whose fetch succeeded, in the order of the log.
RECURSIVE BlocksOf(_, _)
BlocksOf(log, resources) ==
    IF Len(log) = 0 THEN ""
    ELSE LET n == Len(log)
             head == BlocksOf(SubSeq(log, 1, n - 1), resources)
         IN IF log[n].ok
            THEN head \o "\n" \o resources[n].name \o ":\n"
                      \o ResourceContent(resources[n].uri) \o "\n"
            ELSE head

\* C7: _get_resources_content does not raise, attempts every resource in
\* the order of available_resources whatever fails, and returns exactly the
\* blocks of the successfully fetched resources in that order (the empty
\* string when there is none).
C7_AggregateSkipsFailures ==
    /\ pc = "q_resources" =>
          /\ Len(fetchLog) = resIdx - 1
          /\ resIdx <= Len(available_resources) + 1
    /\ pc = "q_send" =>
          /\ Len(fetchLog) = Len(available_resources)
          /\ \A i \in 1..Len(fetchLog) :
                fetchLog[i].uri = available_resources[i].uri
          /\ resources_text = BlocksOf(fetchLog, available_resources)
    /\ (QueryEnded /\ outcome.kind = "raise") => Len(trace) >= 1

\* Witness of C7: the first of two resources failed, the second was still
\* read and its block alone is returned.
C7_Witness ==
    /\ pc = "q_send"
    /\ Len(fetchLog) = 2
    /\ ~fetchLog[1].ok
    /\ fetchLog[2].ok
    /\ available_resources[2].name = "budget"
    /\ resources_text = "\nbudget:\nlimit=100\n"

\* C8: a function response is sent only for a call_tool that returned, with
\* that call's name and result; a call_tool that raised is the last event of
\* the turn: nothing is fed back for it, it is not retried, and
\* process_query raises the failure to its caller.
C8_FailureNotFedBack ==
    \A i \in 1..Len(trace) :
        /\ trace[i].ev = "feed" =>
              /\ i >= 3
              /\ trace[i - 1].ev = "result"
              /\ trace[i - 2].ev = "call"
              /\ trace[i].name = trace[i - 2].name
              /\ trace[i].result = trace[i - 1].result.content[1]
        /\ (trace[i].ev = "call" /\ i < Len(trace)) =>
              trace[i + 1].ev = "result"
        /\ (trace[i].ev = "call" /\ i = Len(trace)) =>
              /\ outcome = Raised("process_query", "ToolCallError")
              /\ pc = QueryRaised

\* Witness of C8: one call was answered (a tool-side error result) and fed
\* back, the next call_tool raised and ended the turn.
C8_Witness ==
    /\ outcome = Raised("process_query", "ToolCallError")
    /\ Len(trace) = 7
    /\ trace[3].ev = "call"
    /\ trace[4].ev = "result" /\ trace[4].result.isError
    /\ trace[5].ev = "feed"
    /\ trace[7].ev = "call"

\* The positions inside chat_loop's while loop (the input read and the turn).
LoopPcs ==
    { "l_input", "q_begin", "q_resources", "q_send", "q_loop", "q_feed",
      "q_text" }

\* C9: in chat_loop an error raised while a turn is processed is reported
\* and the loop reads the next input, with the session and transport still
\* open; the loop is left only on a sentinel line (quit/exit/q) just read or
\* on an interrupt.
C9_FailedTurnKeepsLoop ==
    /\ []((driver = "main" /\ QueryEnded /\ outcome.kind = "raise") =>
             /\ pc = "l_input"
             /\ SessionReady
             /\ transportState = "entered")
    /\ [][(driver = "main" /\ pc \in LoopPcs /\ pc' \notin LoopPcs) =>
             \/ /\ pc = "l_input"
                /\ turns' = turns + 1
                /\ Lower(user_input') \in {"quit", "exit", "q"}
             \/ /\ outcome'.kind = "raise"
                /\ outcome'.value \in Interrupts]_vars

\* Witness of C9: the second input is being awaited after a turn in which
\* call_tool failed.
C9_Witness ==
    /\ driver = "main"
    /\ pc = "l_input"
    /\ turns = 1
    /\ outcome = Raised("process_query", "ToolCallError")
    /\ SessionReady

\* C10: call_tool is only made on a session that is connected (entered and
\* initialized) and not closed.
C10_InvokeOnlyWhenReady ==
    \A i \in 1..Len(trace) : trace[i].ev = "call" => trace[i].ready

----------------------------------------------------------------------------
(* The exit status of the script *)

\* The latest connect_to_server ended in a step that failed.
ConnectFailed == connLog # <<>> /\ ~connLog[Len(connLog)].ok

\* C11: the script ends with exit status 0 after the user quit and the
\* teardown went through, and with a non-zero status when start-up failed,
\* both when the credential is missing and when connect_to_server failed.
C11_ExitStatusTellsStartupFailure ==
    pc = "exit" =>
        /\ (/\ Lower(user_input) \in {"quit", "exit", "q"}
            /\ outcome.value # "TeardownError") => ExitCode(outcome) = 0
        /\ outcome = Raised("module", "ValueError") => ExitCode(outcome) # 0
        /\ ConnectFailed => ExitCode(outcome) # 0

----------------------------------------------------------------------------
(* Properties of the schema translation *)

\* A translation of the client's tool list has ended.
Translated == pc = "t_idle" /\ turns >= 1

\* C12 as stated: for every tool list the translation yields one
\* declaration per tool, in the order of the tools, each with the tool's
\* name and description unchanged.
C12_OneDeclarationPerTool ==
    Translated =>
        /\ outcome.kind = "return"
        /\ Len(gemini_tools) = Len(available_tools)
        /\ \A i \in 1..Len(available_tools) :
              /\ gemini_tools[i].name = available_tools[i].name
              /\ gemini_tools[i].description = available_tools[i].description

\* C12, amended: whenever the translation returns, it yields one
\* declaration per tool, in the order of the tools, with the tool's name
\* unchanged and its description unchanged, an absent description (None)
\* becoming the empty string; translating the same list again ends the same
\* way with the same declarations and leaves available_tools unchanged.
C12_DeclarationsFollowTools ==
    /\ []((Translated /\ outcome.kind = "return") =>
             /\ Len(gemini_tools) = Len(available_tools)
             /\ \A i \in 1..Len(available_tools) :
                   /\ gemini_tools[i].name = available_tools[i].name
                   /\ gemini_tools[i].description =
                          IF available_tools[i].description = "None" THEN ""
                          ELSE available_tools[i].description)
    /\ [][(Translated /\ turns' = turns + 1) =>
             /\ gemini_tools' = gemini_tools
             /\ outcome' = outcome
             /\ available_tools' = available_tools]_vars

\* Witness of C12: a list of three tools, one of them without description,
\* has been translated twice.
C12_Witness ==
    /\ pc = "t_idle"
    /\ turns = 2
    /\ outcome.kind = "return"
    /\ Len(gemini_tools) = 3
    /\ \E i \in 1..3 : available_tools[i].description = "None"
    /\ \E i \in 1..3 : available_tools[i].name = "add_number"

\* The type tags the target vocabulary has a counterpart for.
Vocabulary ==
    { "string", "number", "integer", "boolean", "object", "array" }

\* A parameter of the tool declares a type outside the vocabulary.
HasUnmappedType(tool) ==
    /\ "properties" \in DOMAIN tool.inputSchema
    /\ \E p \in DOMAIN tool.inputSchema.properties :
          LET info == tool.inputSchema.properties[p] IN
          "type" \in DOMAIN info /\ info.type \notin Vocabulary

\* C13: the translation fails exactly when some declared parameter type has
\* no counterpart in the target vocabulary; when it returns, every parameter
\* has the counterpart of its declared type, and STRING only when it
\* declares string or declares no type.
C13_UnmappedTypeFails ==
    Translated =>
        /\ outcome.kind = "raise" <=>
              \E i \in 1..Len(available_tools) :
                  HasUnmappedType(available_tools[i])
        /\ outcome.kind = "return" =>
              \A i \in 1..Len(available_tools) :
                  LET schema == available_tools[i].inputSchema IN
                  "properties" \in DOMAIN schema =>
                      \A p \in DOMAIN schema.properties :
                          gemini_tools[i].parameters.properties[p].type =
                              IF "type" \in DOMAIN schema.properties[p]
                              THEN Upper(schema.properties[p].type)
                              ELSE "STRING"

\* Witness of C13: the translation of a list of two tools failed, the second
\* tool declaring a parameter of type "date".
C13_Witness ==
    /\ Translated
    /\ outcome = Raised("_convert_tools_for_gemini", "AttributeError")
    /\ Len(available_tools) = 2
    /\ available_tools[1].name = "add_note"
    /\ available_tools[2].name = "expenses_on"

\* C14: a tool whose inputSchema is absent or has no properties map makes the
\* translation neither fail nor declare anything: no parameter and an empty
\* required list; with a properties map the declaration has the parameters
\* of the map and the schema's required list as it is, empty if there is
\* none.
C14_MissingSchemaGivesEmptyParameters ==
    Translated =>
        /\ (\A i \in 1..Len(available_tools) :
                "properties" \notin DOMAIN available_tools[i].inputSchema)
              => outcome.kind = "return"
        /\ outcome.kind = "return" =>
              \A i \in 1..Len(available_tools) :
                  LET schema == available_tools[i].inputSchema
                      parameters == gemini_tools[i].parameters
                  IN IF "properties" \in DOMAIN schema
                     THEN /\ DOMAIN parameters.properties =
                                 DOMAIN schema.properties
                          /\ parameters.required =
                                 IF "required" \in DOMAIN schema
                                 THEN schema.required ELSE <<>>
                     ELSE /\ DOMAIN parameters.properties = {}
                          /\ parameters.required = <<>>

\* Witness of C14: translated are a tool without inputSchema, one whose
\* schema has a required list but no properties, and one with both.
C14_Witness ==
    /\ Translated
    /\ outcome.kind = "return"
    /\ Len(available_tools) = 3
    /\ available_tools[1].name = "ping"
    /\ available_tools[2].name = "list_all"
    /\ available_tools[3].name = "add_note"

----------------------------------------------------------------------------
(* Properties of the call loop's order and of the connection's steps *)

\* C15: every tool invocation is the first requested call of the model
\* response just before it, so one loop iteration dispatches one call and
\* no second call is made on the same response; every later response is
\* preceded by the call, its result and the result's hand-over, in that
\* order, so the one invocation between two exchanges is completed before
\* the next exchange starts.
C15_OneCallPerResponse ==
    \A i \in 1..Len(trace) :
        /\ trace[i].ev = "call" =>
              /\ i > 1
              /\ trace[i - 1].ev = "response"
              /\ LoopContinues(trace[i - 1].parts)
              /\ trace[i].name = trace[i - 1].parts[1].name
              /\ trace[i].args = trace[i - 1].parts[1].args
        /\ (trace[i].ev = "response" /\ i > 2) =>
              /\ i >= 6
              /\ trace[i - 1].ev = "feed"
              /\ trace[i - 2].ev = "result"
              /\ trace[i - 3].ev = "call"
              /\ trace[i - 4].ev = "response"

\* Witness of C15: a response carried two function calls; the first was
\* dispatched and its result handed over, and the model has answered again.
C15_Witness ==
    /\ Len(trace) = 6
    /\ trace[2].ev = "response"
    /\ Len(trace[2].parts) = 2
    /\ IsFunctionCall(trace[2].parts[1])
    /\ IsFunctionCall(trace[2].parts[2])
    /\ trace[2].parts[1].name = "add_number"
    /\ trace[2].parts[2].name = "roll_dice"
    /\ trace[3].ev = "call"
    /\ trace[5].ev = "feed"
    /\ trace[6].ev = "response"

\* The handshake of the latest connect_to_server has completed.
HandshakeDone == Len(connLog) >= 3 /\ connLog[3].ok

\* No request has been made on the session.
NoRequestMade ==
    /\ Len(connLog) <= 3
    /\ reads = 0
    /\ fetchLog = <<>>
    /\ \A i \in 1..Len(trace) : trace[i].ev # "call"

\* C16: the steps of connect_to_server are taken in the order transport,
\* session, handshake, tool list, resource list, each only after the one
\* before it succeeded; chat_loop runs only after all five succeeded; and
\* while the handshake has not completed no list, read or call request is
\* made on the session.
C16_ConnectStepsInOrder ==
    /\ Len(connLog) <= Len(ConnectSteps)
    /\ \A i \in 1..Len(connLog) :
          /\ connLog[i].step = ConnectSteps[i]
          /\ i < Len(connLog) => connLog[i].ok
    /\ pc \in LoopPcs => (Len(connLog) = 5 /\ connLog[5].ok)
    /\ ~HandshakeDone => NoRequestMade

\* Witness of C16: the handshake failed and main has ended.
C16_Witness ==
    /\ pc = "exit"
    /\ Len(connLog) = 3
    /\ ~connLog[3].ok
    /\ sessionExits = 1

IsListTools(s) == s.step = "list_tools"
IsListResources(s) == s.step = "list_resources"

\* C17: the tool list and the resource list are requested at most once per
\* session, exactly once each when chat_loop runs, and no step of chat_loop
\* or process_query changes available_tools or available_resources.
C17_ListsAreSnapshot ==
    /\ [](/\ Len(SelectSeq(connLog, IsListTools)) <= 1
          /\ Len(SelectSeq(connLog, IsListResources)) <= 1
          /\ pc \in LoopPcs =>
                /\ Len(SelectSeq(connLog, IsListTools)) = 1
                /\ Len(SelectSeq(connLog, IsListResources)) = 1)
    /\ [][(pc \in LoopPcs) =>
             /\ available_tools' = available_tools
             /\ available_resources' = available_resources]_vars

\* Witness of C17: two queries have been answered and the lists are those
\* of the connect.
C17_Witness ==
    /\ pc = "l_input"
    /\ turns = 2
    /\ QueryReturned
    /\ available_tools = ServerTools
    /\ Len(available_resources) = 2
    /\ reads = 4

\* C18 as stated: over the process_query calls of one session each resource
\* is read at most once, and no query is sent before the pre-step is done.
C18_ResourcesReadOnce ==
    /\ reads <= Len(available_resources)
    /\ pc \in {"q_begin", "q_resources"} => trace = <<>>

\* C18, amended: the pre-step runs in every process_query call: the call
\* reads each listed resource once, in the order of the list, and the query
\* is sent only when the tools are translated and every resource has been
\* read.
C18_PreStepBeforeEveryQuery ==
    /\ [](/\ Len(fetchLog) <= Len(available_resources)
          /\ \A i \in 1..Len(fetchLog) :
                fetchLog[i].uri = available_resources[i].uri
          /\ pc \in {"q_begin", "q_resources"} => trace = <<>>)
    /\ [][(trace = <<>> /\ trace' # <<>>) =>
             /\ pc = "q_send"
             /\ gemini_tools = ConvertTools(available_tools)
             /\ Len(fetchLog) = Len(available_resources)]_vars

\* Witness of C18: in the second query of a session with two resources the
\* pre-step is done and both resources have been read a second time.
C18_Witness ==
    /\ pc = "q_send"
    /\ turns = 2
    /\ Len(available_resources) = 2
    /\ Len(fetchLog) = 2
    /\ reads = 4
    /\ gemini_tools # <<>>

----------------------------------------------------------------------------
(* Properties of the teardown *)

\* C19: when connect_to_server has failed, cleanup exits a context only if
\* it had been entered: at the test of self.session, and of
\* self.stdio_context, an object that is there is an entered one.
C19_CleanupExitsOnlyEntered ==
    ConnectFailed =>
        /\ (pc = "k_session" /\ session # "None") => sessionState = "entered"
        /\ (pc = "k_stdio" /\ stdio_context # "None") =>
              transportState = "entered"

\* C20: the transport is exited only after the session: whenever the
\* transport has been exited the session is not open, and its exit has been
\* called if there is a session.
C20_SessionExitsBeforeTransport ==
    /\ transportState = "exited" => sessionState # "entered"
    /\ (transportExits >= 1 /\ session # "None") => sessionExits >= 1

\* Witness of C20: a connected client has been cleaned up.
C20_Witness ==
    /\ initialized
    /\ sessionState = "exited"
    /\ transportState = "exited"
    /\ sessionExits = 1
    /\ transportExits = 1

====
